---- MODULE Spec2Model ----
(***************************************************************************)
(* coalib/parsing/StringProcessing.py: unescaped_split, escaped_split,     *)
(* unescaped_search_in_between and search_for.                             *)
(*                                                                         *)
(* A string is a sequence of one-character strings; offsets are Python's   *)
(* 0-based offsets, so string[i : j] is Sub(string, i, j).  A pattern is   *)
(* one of three regular expressions over the alphabet:                     *)
(*    lit  - a fixed non-empty string,                                     *)
(*    star - c* for a character c (greedy, may match the empty string),    *)
(*    alt  - (c1|c2), one capturing group around an alternation.           *)
(* The regular expressions the code builds around the caller's pattern     *)
(* are matched the way the backtracking engine matches them: the           *)
(* candidates of a match at one start offset are listed in the engine's    *)
(* order of preference and the first admissible one is the match.  Every   *)
(* regular expression is compiled with re.DOTALL, so "." matches any       *)
(* character and no character of a string is special.  escaped_split is    *)
(* called with fixed delimiters that do not contain the escape character.  *)
(***************************************************************************)
EXTENDS Integers, Sequences, FiniteSets, TLC

\* ---------------------------------------------------------------- bounds
MaxLen == 5
MaxK == 2

\* ------------------------------------------------------------- alphabet
ESC == "\\"
Chars == {ESC, ",", "a"}

RECURSIVE StringsUpTo(_)
StringsUpTo(n) ==
    IF n = 0 THEN {<<>>}
    ELSE LET shorter == StringsUpTo(n - 1)
         IN  shorter \cup {Append(s, c) : s \in {x \in shorter : Len(x) = n - 1}, c \in Chars}

Strings == StringsUpTo(MaxLen)

Lit(s) == [kind |-> "lit", arg |-> s]
Star(c) == [kind |-> "star", arg |-> <<c>>]
Alt(c1, c2) == [kind |-> "alt", arg |-> <<c1, c2>>]

\* Fixed delimiters: one character, a doubled character (its occurrences can
\* overlap one another) and two different characters.
Delimiters == {Lit(<<",">>), Lit(<<",", ",">>), Lit(<<"a", ",">>)}
Patterns == Delimiters \cup {Lit(<<"a">>), Star("a"), Alt("a", ",")}
Limits == (-1)..MaxK

\* ------------------------------------------------------ the regex engine
\* string[i : j]
Sub(t, i, j) == SubSeq(t, i + 1, j)

OccursAt(s, t, i) == i + Len(s) <= Len(t) /\ Sub(t, i, i + Len(s)) = s

\* The length of the run of character c that starts at offset i.
RECURSIVE RunLen(_, _, _)
RunLen(c, t, i) ==
    IF i < Len(t) /\ t[i + 1] = c THEN 1 + RunLen(c, t, i + 1) ELSE 0

RECURSIVE Flatten(_)
Flatten(ss) == IF ss = <<>> THEN <<>> ELSE Head(ss) \o Flatten(Tail(ss))

\* rxc.groups: the number of capturing groups of a pattern.
GroupCount(p) == IF p.kind = "alt" THEN 1 ELSE 0

\* The ways pattern p matches at offset i, in the engine's order of
\* preference: each is the end offset and the captured groups.
Candidates(p, t, i) ==
    CASE p.kind = "lit" ->
            IF OccursAt(p.arg, t, i)
            THEN << [end |-> i + Len(p.arg), groups |-> <<>>] >>
            ELSE <<>>
      [] p.kind = "star" ->
            LET r == RunLen(p.arg[1], t, i)
            IN  [k \in 1..(r + 1) |-> [end |-> i + r + 1 - k, groups |-> <<>>]]
      [] p.kind = "alt" ->
            IF i < Len(t) /\ \E k \in 1..Len(p.arg) : p.arg[k] = t[i + 1]
            THEN << [end |-> i + 1, groups |-> << <<t[i + 1]>> >>] >>
            ELSE <<>>

\* EscapedCandidates without the lookbehind (?<!\\): an offset that follows
\* a backslash is tried like any other.
EscapedCandidatesNoLookbehind(p, t, s) ==
    Flatten([d \in 1..(Len(t) - s + 1) |->
        LET q == s + d - 1
            maxPairs == RunLen(ESC, t, q) \div 2
        IN  Flatten([j \in 1..(maxPairs + 1) |->
                LET n == maxPairs + 1 - j
                    cs == Candidates(p, t, q + 2 * n)
                IN  [c \in 1..Len(cs) |->
                        [end |-> cs[c].end,
                         groups |-> <<Sub(t, s, q), Sub(t, q, q + 2 * n)>>
                                    \o cs[c].groups]]])])

\* r"(.*?)(?<!\\)((?:\\\\)*)" + pattern, matched from offset s: the lazy
\* prefix grows from s, the lookbehind rejects an offset that follows a
\* backslash, the backslash pairs are taken greedily, then the pattern.
EscapedCandidates(p, t, s) ==
    Flatten([d \in 1..(Len(t) - s + 1) |->
        LET q == s + d - 1
        IN  IF q > 0 /\ t[q] = ESC
            THEN <<>>
            ELSE LET maxPairs == RunLen(ESC, t, q) \div 2
                 IN  Flatten([j \in 1..(maxPairs + 1) |->
                        LET n == maxPairs + 1 - j
                            cs == Candidates(p, t, q + 2 * n)
                        IN  [c \in 1..Len(cs) |->
                                [end |-> cs[c].end,
                                 groups |-> <<Sub(t, s, q), Sub(t, q, q + 2 * n)>>
                                            \o cs[c].groups]]])])

\* begin + r"(.*?)" + end, matched from offset s.
BetweenCandidates(b, e, t, s) ==
    LET bs == Candidates(b, t, s)
    IN  Flatten([x \in 1..Len(bs) |->
            Flatten([d \in 1..(Len(t) - bs[x].end + 1) |->
                LET q == bs[x].end + d - 1
                    es == Candidates(e, t, q)
                IN  [y \in 1..Len(es) |->
                        [end |-> es[y].end,
                         groups |-> bs[x].groups \o <<Sub(t, bs[x].end, q)>>
                                    \o es[y].groups]]])])

\* The regular expressions handed to search_for.
Plain(p) == [form |-> "plain", p1 |-> p, p2 |-> p]
Escaped(p) == [form |-> "escaped", p1 |-> p, p2 |-> p]
Between(b, e) == [form |-> "between", p1 |-> b, p2 |-> e]

RegexCandidates(rx, t, s) ==
    CASE rx.form = "plain" -> Candidates(rx.p1, t, s)
      [] rx.form = "escaped" -> EscapedCandidates(rx.p1, t, s)
      [] rx.form = "between" -> BetweenCandidates(rx.p1, rx.p2, t, s)

NoMatch == [start |-> -1, end |-> -1, groups |-> <<>>]

\* The candidates at start offset s the engine may return: after an empty
\* match the scanner must advance, and refuses a match that ends where the
\* search began.
Admissible(rx, t, s, pos, mustAdvance) ==
    SelectSeq(RegexCandidates(rx, t, s), LAMBDA c : ~mustAdvance \/ c.end # pos)

\* rxc.search(string, pos): the leftmost match at or after pos.
RECURSIVE SearchAt(_, _, _, _, _)
SearchAt(rx, t, s, pos, mustAdvance) ==
    IF s > Len(t) THEN NoMatch
    ELSE LET cs == Admissible(rx, t, s, pos, mustAdvance)
         IN  IF cs # <<>>
             THEN [start |-> s, end |-> cs[1].end, groups |-> cs[1].groups]
             ELSE SearchAt(rx, t, s + 1, pos, mustAdvance)

Search(rx, t, pos) == SearchAt(rx, t, pos, pos, FALSE)

\* re.finditer(pattern, string, flags): every match, the scanner restarting
\* at the end of the last one and advancing past an empty match.
RECURSIVE FindIterFrom(_, _, _, _)
FindIterFrom(rx, t, pos, mustAdvance) ==
    LET m == SearchAt(rx, t, pos, pos, mustAdvance)
    IN  IF m = NoMatch THEN <<>>
        ELSE <<m>> \o FindIterFrom(rx, t, m.end, m.end = m.start)

FindIter(rx, t) == FindIterFrom(rx, t, 0, FALSE)

\* ------------------------------------------------------------ search_for
\* BoundedLoop running one search too many: range(0, max_matches + 1).
RECURSIVE BoundedLoopOneMore(_, _, _, _)
BoundedLoopOneMore(rx, t, pos, k) ==
    LET current_match == Search(rx, t, pos)
    IN  IF current_match = NoMatch THEN <<>>
        ELSE <<current_match>> \o
             (IF k = 0 THEN <<>> ELSE BoundedLoopOneMore(rx, t, current_match.end, k - 1))

\* The loop of the max_matches > 0 branch: at most k searches, each from the
\* end offset of the match before it.
RECURSIVE BoundedLoop(_, _, _, _)
BoundedLoop(rx, t, pos, k) ==
    IF k = 0 THEN <<>>
    ELSE LET current_match == Search(rx, t, pos)
         IN  IF current_match = NoMatch THEN <<>>
             ELSE <<current_match>> \o BoundedLoop(rx, t, current_match.end, k - 1)

\* What search_for returns: match objects, or (a negative max_matches) the
\* string itself, which a caller's for loop walks character by character.
search_for(rx, t, max_matches) ==
    IF max_matches = 0 THEN [matches |-> TRUE, items |-> FindIter(rx, t)]
    ELSE IF max_matches > 0
         THEN [matches |-> TRUE, items |-> BoundedLoop(rx, t, 0, max_matches)]
         ELSE [matches |-> FALSE, items |-> t]

\* A call's outcome: the value returned, or the AttributeError of
\* item.group(...) on an item that is a character and no match object.
Returned(v) == [raised |-> FALSE, value |-> v]
AttributeError == [raised |-> TRUE, value |-> <<>>]

\* --------------------------------------------------------- unescaped_split
\* FilterEmpty that filters nothing: the filtered items are never collected.
FilterEmptyKeepsAll(match) == match

\* filter(bool, match), recollected into a list.
FilterEmpty(match) == SelectSeq(match, LAMBDA item : item # <<>>)

\* re.split(pattern, string, max_split, re.DOTALL): the text before each
\* match, then the match's groups, then the text after the last match; a
\* negative maxsplit splits nowhere.
RECURSIVE SplitFrom(_, _, _, _, _, _)
SplitFrom(rx, t, last, mustAdvance, n, maxsplit) ==
    IF maxsplit # 0 /\ n >= maxsplit THEN << Sub(t, last, Len(t)) >>
    ELSE LET m == SearchAt(rx, t, last, last, mustAdvance)
         IN  IF m = NoMatch THEN << Sub(t, last, Len(t)) >>
             ELSE << Sub(t, last, m.start) >> \o m.groups
                  \o SplitFrom(rx, t, m.end, m.end = m.start, n + 1, maxsplit)

re_split(p, t, maxsplit) == SplitFrom(Plain(p), t, 0, FALSE, 0, maxsplit)

unescaped_split(pattern, string, max_split, remove_empty_matches) ==
    LET match == re_split(pattern, string, max_split)
    IN  Returned(IF remove_empty_matches THEN FilterEmpty(match) ELSE match)

\* ----------------------------------------------------------- escaped_split
\* SplitLoop without the second group: the escaped escapes the regex
\* consumed are not put back.
RECURSIVE SplitLoopDropsEscapes(_, _, _, _, _)
SplitLoopDropsEscapes(items, i, remove_empty_matches, match_strings, last_pos) ==
    IF i > Len(items)
    THEN [match_strings |-> match_strings, last_pos |-> last_pos]
    ELSE IF ~remove_empty_matches \/ Len(items[i].groups[1]) # 0
         THEN SplitLoopDropsEscapes(items, i + 1, remove_empty_matches,
                                    Append(match_strings, items[i].groups[1]),
                                    items[i].end)
         ELSE SplitLoopDropsEscapes(items, i + 1, remove_empty_matches,
                                    match_strings, last_pos)

\* The for loop over the matches: match_strings and last_pos after items
\* i, i+1, ...
RECURSIVE SplitLoop(_, _, _, _, _)
SplitLoop(items, i, remove_empty_matches, match_strings, last_pos) ==
    IF i > Len(items)
    THEN [match_strings |-> match_strings, last_pos |-> last_pos]
    ELSE IF ~remove_empty_matches \/ Len(items[i].groups[1]) # 0
         THEN SplitLoop(items, i + 1, remove_empty_matches,
                        Append(match_strings, items[i].groups[1] \o items[i].groups[2]),
                        items[i].end)
         ELSE SplitLoop(items, i + 1, remove_empty_matches, match_strings, last_pos)

escaped_split(pattern, string, max_split, remove_empty_matches) ==
    LET matches == search_for(Escaped(pattern), string, max_split)
    IN  IF ~matches.matches /\ matches.items # <<>>
        THEN AttributeError
        ELSE LET done == SplitLoop(IF matches.matches THEN matches.items ELSE <<>>,
                                   1, remove_empty_matches, <<>>, 0)
                 rest == Sub(string, done.last_pos, Len(string))
             IN  Returned(IF ~remove_empty_matches \/ Len(rest) # 0
                          THEN Append(done.match_strings, rest)
                          ELSE done.match_strings)

\* --------------------------------------------- unescaped_search_in_between
\* InteriorGroup with a fixed group index: item.group(1).
InteriorGroupFirst(begin, item) == item.groups[1]

\* item.group(rxc_begin.groups + 1) of every match.
InteriorGroup(begin, item) == item.groups[GroupCount(begin) + 1]

unescaped_search_in_between(begin, end, string, max_matches) ==
    LET matches == search_for(Between(begin, end), string, max_matches)
    IN  IF ~matches.matches /\ matches.items # <<>>
        THEN AttributeError
        ELSE Returned([i \in 1..(IF matches.matches THEN Len(matches.items) ELSE 0) |->
                          InteriorGroup(begin, matches.items[i])])

\* ------------------------------------------------------------ the program
\* One call of one of the four functions on a string: the arguments of the
\* call and its outcome.
VARIABLES string, call, ret

vars == <<string, call, ret>>

BeginPatterns == {Lit(<<"a">>), Alt("a", ESC), Star("a")}
EndPatterns == {Lit(<<",">>), Lit(<<",", ",">>), Alt(",", ESC)}

NoCall == [fn |-> "none", pattern |-> Lit(<<",">>), end |-> Lit(<<",">>),
           max |-> 0, remove_empty_matches |-> FALSE]

Init ==
    /\ string \in Strings
    /\ call = NoCall
    /\ ret = Returned(<<>>)

CallUnescapedSplit ==
    /\ call.fn = "none"
    /\ \E p \in Patterns, k \in Limits, r \in BOOLEAN :
          /\ call' = [fn |-> "unescaped_split", pattern |-> p, end |-> p,
                      max |-> k, remove_empty_matches |-> r]
          /\ ret' = unescaped_split(p, string, k, r)
    /\ UNCHANGED string

CallEscapedSplit ==
    /\ call.fn = "none"
    /\ \E p \in Delimiters, k \in Limits, r \in BOOLEAN :
          /\ call' = [fn |-> "escaped_split", pattern |-> p, end |-> p,
                      max |-> k, remove_empty_matches |-> r]
          /\ ret' = escaped_split(p, string, k, r)
    /\ UNCHANGED string

CallSearchInBetween ==
    /\ call.fn = "none"
    /\ \E b \in BeginPatterns, e \in EndPatterns, k \in Limits :
          /\ call' = [fn |-> "unescaped_search_in_between", pattern |-> b, end |-> e,
                      max |-> k, remove_empty_matches |-> FALSE]
          /\ ret' = unescaped_search_in_between(b, e, string, k)
    /\ UNCHANGED string

\* search_for called directly: what it returns is kept as spans, the
\* (start, end) offsets of each match.
Spans(items) == [i \in 1..Len(items) |-> <<items[i].start, items[i].end>>]

CallSearchFor ==
    /\ call.fn = "none"
    /\ \E p \in Patterns, k \in Limits :
          /\ call' = [fn |-> "search_for", pattern |-> p, end |-> p,
                      max |-> k, remove_empty_matches |-> FALSE]
          /\ ret' = LET found == search_for(Plain(p), string, k)
                    IN  Returned(IF found.matches THEN Spans(found.items) ELSE found.items)
    /\ UNCHANGED string

Next ==
    \/ CallUnescapedSplit
    \/ CallEscapedSplit
    \/ CallSearchInBetween
    \/ CallSearchFor

Spec == Init /\ [][Next]_vars

\* One specification per function: the calls of that function alone.
SpecUnescapedSplit == Init /\ [][CallUnescapedSplit]_vars
SpecEscapedSplit == Init /\ [][CallEscapedSplit]_vars
SpecSearchInBetween == Init /\ [][CallSearchInBetween]_vars
SpecSearchFor == Init /\ [][CallSearchFor]_vars

\* ------------------------------------------------- what the claims speak of
Min(a, b) == IF a < b THEN a ELSE b

\* The length of the maximal run of backslashes that ends just before offset i.
RECURSIVE EscRunBefore(_, _)
EscRunBefore(t, i) == IF i > 0 /\ t[i] = ESC THEN 1 + EscRunBefore(t, i - 1) ELSE 0

Unescaped(d, t, i) == OccursAt(d, t, i) /\ EscRunBefore(t, i) % 2 = 0
EscapedAt(d, t, i) == OccursAt(d, t, i) /\ EscRunBefore(t, i) % 2 = 1

\* The offsets of the unescaped occurrences of d in t, found left to right
\* from offset i, none overlapping the one before it.
RECURSIVE UnescapedFrom(_, _, _)
UnescapedFrom(d, t, i) ==
    IF i + Len(d) > Len(t) THEN <<>>
    ELSE IF Unescaped(d, t, i) THEN <<i>> \o UnescapedFrom(d, t, i + Len(d))
         ELSE UnescapedFrom(d, t, i + 1)

\* The segments v joined with d between consecutive segments.
RECURSIVE Join(_, _)
Join(v, d) ==
    IF v = <<>> THEN <<>>
    ELSE IF Len(v) = 1 THEN v[1]
         ELSE v[1] \o d \o Join(Tail(v), d)

\* Where segment k of v begins and ends in Join(v, d).
RECURSIVE SegStart(_, _, _)
SegStart(v, d, k) == IF k = 1 THEN 0 ELSE SegStart(v, d, k - 1) + Len(v[k - 1]) + Len(d)
SegEnd(v, d, k) == SegStart(v, d, k) + Len(v[k])

\* The offsets of the delimiters the split consumed.
SplitPoints(v, d) == {SegEnd(v, d, k) : k \in 1..(Len(v) - 1)}

\* Offset i lies inside a delimiter consumed at an earlier offset.
Covered(v, d, i) == \E j \in SplitPoints(v, d) : j < i /\ i < j + Len(d)

\* v with its empty strings deleted.
RECURSIVE DropEmpty(_)
DropEmpty(v) ==
    IF v = <<>> THEN <<>>
    ELSE IF Head(v) = <<>> THEN DropEmpty(Tail(v))
         ELSE <<Head(v)>> \o DropEmpty(Tail(v))

IsEscapedSplit(k, r) ==
    call.fn = "escaped_split" /\ call.max = k /\ call.remove_empty_matches = r

\* C1: escaped_split with max_split = 0 and remove_empty_matches = False
\* returns n + 1 segments, n the number of unescaped occurrences of the
\* delimiter found left to right without overlap, and the segments joined
\* with the delimiter are the text.
C1_SegmentsRejoin ==
    IsEscapedSplit(0, FALSE) =>
        /\ ~ret.raised
        /\ Len(ret.value) = Len(UnescapedFrom(call.pattern.arg, string, 0)) + 1
        /\ Join(ret.value, call.pattern.arg) = string

\* C1 witness: a split of a text with two unescaped occurrences and an
\* escaped one.
C1_Witness ==
    /\ IsEscapedSplit(0, FALSE)
    /\ Len(UnescapedFrom(call.pattern.arg, string, 0)) = 2
    /\ \E i \in 0..Len(string) : EscapedAt(call.pattern.arg, string, i)
    /\ Len(ret.value) = 3

\* The part of C2 that both its statements share: the segments rejoin to the
\* text, every split point is an unescaped occurrence, every occurrence that
\* no earlier split's delimiter overlaps is a split point when the run of
\* backslashes before it is even, and then the segment that ends there ends
\* with that run; when the run is odd it is no split point.
C2_Parity ==
    LET d == call.pattern.arg
        v == ret.value
    IN  /\ ~ret.raised
        /\ Join(v, d) = string
        /\ \A i \in SplitPoints(v, d) : Unescaped(d, string, i)
        /\ \A i \in 0..Len(string) :
              (OccursAt(d, string, i) /\ ~Covered(v, d, i)) =>
                 LET r == EscRunBefore(string, i)
                 IN  IF r % 2 = 0
                     THEN \E k \in 1..(Len(v) - 1) :
                             /\ SegEnd(v, d, k) = i
                             /\ Len(v[k]) >= r
                             /\ \A x \in 1..r : v[k][Len(v[k]) + 1 - x] = ESC
                             /\ SegStart(v, d, k + 1) = i + Len(d)
                     ELSE i \notin SplitPoints(v, d)

\* The characters string[lo : hi] all lie in one segment.
InOneSegment(v, d, lo, hi) ==
    \E k \in 1..Len(v) : SegStart(v, d, k) <= lo /\ hi <= SegEnd(v, d, k)

\* C2 as stated: at an odd run the backslashes and the whole delimiter stay
\* inside the segment being accumulated.
C2_EscapedStaysWhole ==
    IsEscapedSplit(0, FALSE) =>
        /\ C2_Parity
        /\ \A i \in 0..Len(string) :
              (EscapedAt(call.pattern.arg, string, i) /\ ~Covered(ret.value, call.pattern.arg, i)) =>
                 InOneSegment(ret.value, call.pattern.arg,
                              i - EscRunBefore(string, i), i + Len(call.pattern.arg))

\* C2 as amended: at an odd run the backslashes and the delimiter's first
\* character stay inside the segment being accumulated, and so does the rest
\* of the delimiter unless a later unescaped occurrence that overlaps it
\* starts a split inside it.
C2_EscapedStays ==
    IsEscapedSplit(0, FALSE) =>
        /\ C2_Parity
        /\ \A i \in 0..Len(string) :
              (EscapedAt(call.pattern.arg, string, i) /\ ~Covered(ret.value, call.pattern.arg, i)) =>
                 /\ InOneSegment(ret.value, call.pattern.arg, i - EscRunBefore(string, i), i + 1)
                 /\ \/ InOneSegment(ret.value, call.pattern.arg,
                                    i - EscRunBefore(string, i), i + Len(call.pattern.arg))
                    \/ \E j \in SplitPoints(ret.value, call.pattern.arg) :
                          i < j /\ j < i + Len(call.pattern.arg)

\* C2 witness: a split of a text that holds an escaped occurrence and an
\* occurrence after a non-empty even run of backslashes.
C2_Witness ==
    /\ IsEscapedSplit(0, FALSE)
    /\ \E i \in 0..Len(string) : EscapedAt(call.pattern.arg, string, i)
    /\ \E i \in SplitPoints(ret.value, call.pattern.arg) : EscRunBefore(string, i) = 2
    /\ Len(ret.value) = 2

\* C3: escaped_split with remove_empty_matches = True returns what it
\* returns with remove_empty_matches = False, the empty strings deleted
\* (checked for the limits that return normally, max_split >= 0).
C3_RemoveEmptyOnlyDropsEmpty ==
    (call.fn = "escaped_split" /\ call.remove_empty_matches /\ call.max >= 0) =>
        /\ ~ret.raised
        /\ ret.value = DropEmpty(escaped_split(call.pattern, string, call.max, FALSE).value)

\* C4: escaped_split with a negative max_split raises nothing and returns
\* the whole text as its only segment.
C4_NegativeLimitWholeText ==
    (call.fn = "escaped_split" /\ call.max < 0) =>
        /\ ~ret.raised
        /\ ret.value = <<string>>

Prefix(v, k) == SubSeq(v, 1, Min(k, Len(v)))

\* C6: search_for with max_matches = k > 0 returns min(k, total) matches,
\* total the number of non-overlapping matches in the string, in order: the
\* offsets never decrease and no match begins before the one before it ends.
C6_BoundedMatches ==
    (call.fn = "search_for" /\ call.max > 0) =>
        /\ ~ret.raised
        /\ Len(ret.value) <= call.max
        /\ Len(ret.value) = Min(call.max, Len(FindIter(Plain(call.pattern), string)))
        /\ \A i \in 1..Len(ret.value) : ret.value[i][1] <= ret.value[i][2]
        /\ \A i \in 1..(Len(ret.value) - 1) :
              /\ ret.value[i][1] <= ret.value[i + 1][1]
              /\ ret.value[i][2] <= ret.value[i + 1][1]

\* Pattern p matches exactly string[i : j].
Matches(p, t, i, j) ==
    /\ 0 <= i /\ i <= j /\ j <= Len(t)
    /\ CASE p.kind = "lit" -> Sub(t, i, j) = p.arg
         [] p.kind = "star" -> \A x \in (i + 1)..j : t[x] = p.arg[1]
         [] p.kind = "alt" -> j = i + 1 /\ \E k \in 1..Len(p.arg) : t[j] = p.arg[k]

MatchesSomeAt(p, t, i) == \E j \in i..Len(t) : Matches(p, t, i, j)

\* A begin ... end occurrence starts at offset s.
OccurrenceAt(b, e, t, s) ==
    \E x \in s..Len(t) : Matches(b, t, s, x) /\ \E q \in x..Len(t) : MatchesSomeAt(e, t, q)

\* C7: unescaped_search_in_between with max_matches = 0 returns, in order,
\* the interior of every non-overlapping begin ... end occurrence from the
\* left: the text between a match of begin and the first match of end at or
\* after it, whatever groups begin has.
C7_Interiors ==
    (call.fn = "unescaped_search_in_between" /\ call.max = 0) =>
        LET b == call.pattern
            e == call.end
            ms == search_for(Between(b, e), string, 0).items
            from(i) == IF i = 1 THEN 0 ELSE ms[i - 1].end
        IN  /\ ~ret.raised
            /\ Len(ret.value) = Len(ms)
            /\ \A i \in 1..Len(ms) :
                  /\ from(i) <= ms[i].start
                  /\ \A s \in from(i)..(ms[i].start - 1) : ~OccurrenceAt(b, e, string, s)
                  /\ \E x \in ms[i].start..ms[i].end, q \in ms[i].start..ms[i].end :
                        /\ x <= q
                        /\ Matches(b, string, ms[i].start, x)
                        /\ Matches(e, string, q, ms[i].end)
                        /\ \A y \in x..(q - 1) : ~MatchesSomeAt(e, string, y)
                        /\ ret.value[i] = Sub(string, x, q)
            /\ \A s \in from(Len(ms) + 1)..Len(string) : ~OccurrenceAt(b, e, string, s)

\* C7 witness: begin has a capturing group and two interiors are returned,
\* the second not empty and not what begin captured there.
C7_Witness ==
    /\ call.fn = "unescaped_search_in_between" /\ call.max = 0
    /\ GroupCount(call.pattern) = 1
    /\ Len(ret.value) = 2
    /\ ret.value[2] # <<>>
    /\ search_for(Between(call.pattern, call.end), string, 0).items[2].groups[1] # ret.value[2]

\* C8: unescaped_search_in_between with a negative max_matches returns
\* normally, with no match made.
C8_NegativeLimitNoError ==
    (call.fn = "unescaped_search_in_between" /\ call.max < 0) =>
        /\ ~ret.raised
        /\ ret.value = <<>>

\* C9: unescaped_split with remove_empty_matches = True returns the segments
\* of the same call with remove_empty_matches = False, the empty ones dropped
\* and the others kept in their order.
C9_RemoveEmptyDrops ==
    (call.fn = "unescaped_split" /\ call.remove_empty_matches) =>
        /\ ~ret.raised
        /\ ret.value = DropEmpty(unescaped_split(call.pattern, string, call.max, FALSE).value)

\* C9 witness: "a,,a" split on "," with removal, the empty middle segment
\* gone.
C9_Witness ==
    /\ call.fn = "unescaped_split" /\ call.remove_empty_matches
    /\ call.pattern = Lit(<<",">>) /\ call.max = 0
    /\ string = <<"a", ",", ",", "a">>
    /\ unescaped_split(call.pattern, string, 0, FALSE).value = << <<"a">>, <<>>, <<"a">> >>
    /\ ret.value = << <<"a">>, <<"a">> >>

\* C10: for k > 0 the offsets search_for returns with max_matches = k are
\* the first k of those it returns with max_matches = 0.
C10_BranchesAgree ==
    (call.fn = "search_for" /\ call.max > 0) =>
        /\ ~ret.raised
        /\ ret.value = Prefix(Spans(search_for(Plain(call.pattern), string, 0).items), call.max)

====
